---- MODULE Spec2Model ----
(***************************************************************************)
(* POSDefinition (perceptron/definition/pos.rs): the label dictionary, the *)
(* feature templates in their allocating and buffer-backed forms, and the  *)
(* gold corpus loader.                                                     *)
(*                                                                         *)
(* A &str / String is the sequence of its UTF-8 bytes; a char is its       *)
(* Unicode scalar value.  Indices are 0-based as in the source; At reads a *)
(* TLA+ sequence with a 0-based index.                                     *)
(***************************************************************************)
EXTENDS Integers, Sequences, FiniteSets, TLC

VARIABLES to_labels, labels_to, ret,
          words, buffer, no_buffer, with_buffer, calls,
          lines, kept, pc, slots, running, reordered, nworkers, samples

vars == <<to_labels, labels_to, ret, words, buffer, no_buffer, with_buffer,
          calls, lines, kept, pc, slots, running, reordered, nworkers,
          samples>>

dictVars == <<to_labels, labels_to>>
extractVars == <<words, buffer, no_buffer, with_buffer, calls>>
corpusVars == <<lines, kept, pc, slots, running, reordered, nworkers, samples>>

-----------------------------------------------------------------------------
(* Bounds *)

MaxWords == 5
MaxShort == 3
MaxCalls == 2
MaxLines == 3
MaxWorkers == 2
MaxLabels == 3

-----------------------------------------------------------------------------
(* Text: bytes, chars, formatting *)

None == [status |-> "none"]

Min(a, b) == IF a < b THEN a ELSE b

At(s, i) == s[i + 1]

InRange(s, i) == 0 <= i /\ i < Len(s)

(* Iterator::collect_vec: the items of a mapped iterator as a Vec *)
collect_vec(items) == SubSeq(items, 1, Len(items))

RECURSIVE Concat(_)
Concat(ss) == IF ss = <<>> THEN <<>> ELSE Head(ss) \o Concat(Tail(ss))

Ascii ==
  [c \in {"0", "1", "2", "3", "4", "5", "6", "7", "8", "9", "a", "b", "c",
          "d", "e", "f", "g", "h", "r", "v", "x", "y", "/", " "} |->
     CASE c = " " -> 32
       [] c = "/" -> 47
       [] c = "0" -> 48 [] c = "1" -> 49 [] c = "2" -> 50 [] c = "3" -> 51
       [] c = "4" -> 52 [] c = "5" -> 53 [] c = "6" -> 54 [] c = "7" -> 55
       [] c = "8" -> 56 [] c = "9" -> 57
       [] c = "a" -> 97 [] c = "b" -> 98 [] c = "c" -> 99 [] c = "d" -> 100
       [] c = "e" -> 101 [] c = "f" -> 102 [] c = "g" -> 103
       [] c = "h" -> 104 [] c = "r" -> 114 [] c = "v" -> 118
       [] c = "x" -> 120 [] c = "y" -> 121]

(* a string literal of the source, one entry per ASCII character *)
Lit(cs) == collect_vec([i \in 1..Len(cs) |-> Ascii[cs[i]]])

(* Display of a char: its UTF-8 encoding *)
EncodeUtf8(c) ==
  IF c < 128 THEN <<c>>
  ELSE IF c < 2048 THEN <<192 + (c \div 64), 128 + (c % 64)>>
  ELSE IF c < 65536
    THEN <<224 + (c \div 4096), 128 + ((c \div 64) % 64), 128 + (c % 64)>>
    ELSE <<240 + (c \div 262144), 128 + ((c \div 4096) % 64),
           128 + ((c \div 64) % 64), 128 + (c % 64)>>

(* Display of a usize: its decimal digits *)
RECURSIVE Decimal(_)
Decimal(n) ==
  IF n < 10 THEN <<48 + n>> ELSE Decimal(n \div 10) \o <<48 + (n % 10)>>

(* str::chars: the scalar values of a valid UTF-8 byte sequence *)
RECURSIVE Chars(_)
Chars(w) ==
  IF w = <<>> THEN <<>>
  ELSE LET b == w[1]
           n == IF b < 128 THEN 1 ELSE IF b < 224 THEN 2
                ELSE IF b < 240 THEN 3 ELSE 4
           c == CASE n = 1 -> b
                  [] n = 2 -> (b - 192) * 64 + (w[2] - 128)
                  [] n = 3 -> (b - 224) * 4096 + (w[2] - 128) * 64
                              + (w[3] - 128)
                  [] n = 4 -> (b - 240) * 262144 + (w[2] - 128) * 4096
                              + (w[3] - 128) * 64 + (w[4] - 128)
       IN <<c>> \o Chars(SubSeq(w, n + 1, Len(w)))

Str(cs) == Concat([i \in 1..Len(cs) |-> EncodeUtf8(cs[i])])

-----------------------------------------------------------------------------
(* One formatted push.  A format over words cannot fail; a format over     *)
(* indexed chars fails (index out of range) at the first access, in        *)
(* argument order, that is outside its token's char list.  acc is a        *)
(* sequence of <<token, char index>> accesses.                             *)

FmtWords(marker, ws) ==
  [ok |-> TRUE, bad |-> -1, key |-> Lit(<<marker>>) \o Concat(ws)]

FmtLen(marker, n) ==
  [ok |-> TRUE, bad |-> -1, key |-> Lit(<<marker>>) \o Decimal(n)]

(* mutant of FmtChars: an access out of range formats as nothing *)
FmtCharsLenient(marker, chars, acc) ==
  [ok |-> TRUE, bad |-> -1,
   key |-> Lit(<<marker>>) \o
           Str(SelectSeq(
                 [k \in 1..Len(acc) |->
                    IF InRange(At(chars, acc[k][1]), acc[k][2])
                      THEN At(At(chars, acc[k][1]), acc[k][2]) ELSE -1],
                 LAMBDA c : c >= 0))]

FmtChars(marker, chars, acc) ==
  LET fails == {k \in 1..Len(acc) : ~InRange(At(chars, acc[k][1]), acc[k][2])}
      first == CHOOSE k \in fails : \A j \in fails : k <= j
  IN IF fails = {}
       THEN [ok |-> TRUE, bad |-> -1,
             key |-> Lit(<<marker>>) \o
                     Str([k \in 1..Len(acc) |->
                            At(At(chars, acc[k][1]), acc[k][2])])]
       ELSE [ok |-> FALSE, bad |-> acc[first][1], key |-> <<>>]

(* a format of one char handed over by an iterator *)
FmtChar(marker, c) ==
  [ok |-> TRUE, bad |-> -1, key |-> Lit(<<marker>>) \o EncodeUtf8(c)]

(* mutant of Take: one item short *)
TakeShort(items, n) == SubSeq(items, 1, Min(n - 1, Len(items)))

(* Iterator::take *)
Take(items, n) == SubSeq(items, 1, Min(n, Len(items)))

(* mutant of Rev: the items in their own order *)
RevMissing(items) == items

(* Iterator::rev *)
Rev(items) == collect_vec([k \in 1..Len(items) |-> items[Len(items) - k + 1]])

(* the pushes of an enumerate().for_each over chars, marker ids[bias] *)
Enumerate(ids, items) ==
  collect_vec([bias \in 1..Len(items) |-> FmtChar(ids[bias], items[bias])])

prefix_id == <<"c", "d", "e">>
suffix_id == <<"f", "g", "h">>
word_null == <<>>

(* the pushes of one pass of the loop of parse_words_features *)
TokenFeature(ws, chars, idx) ==
  LET words_len == Len(ws)
      last == words_len - idx - 1
      cur_word == At(ws, idx)
      pre2_word == IF idx > 1 THEN At(ws, idx - 2) ELSE word_null
      pre_word == IF idx > 0 THEN At(ws, idx - 1) ELSE word_null
      next_word == IF last > 0 THEN At(ws, idx + 1) ELSE word_null
      next2_word == IF last > 1 THEN At(ws, idx + 2) ELSE word_null
      n == Len(At(chars, idx))
  IN <<FmtWords("2", <<At(ws, idx)>>),
       FmtChars("c", chars, <<<<idx, 0>>, <<idx, n - 1>>>>),
       FmtLen("f", n)>>
     \o Enumerate(prefix_id, Take(At(chars, idx), 3))
     \o Enumerate(suffix_id, Take(Rev(At(chars, idx)), 3))
     \o (IF idx > 0
           THEN <<FmtWords("1", <<pre_word>>),
                  FmtWords("6", <<pre_word, cur_word>>),
                  FmtChars("d", chars,
                           <<<<idx - 1, Len(At(chars, idx - 1)) - 1>>,
                             <<idx, 0>>>>)>>
                \o (IF idx > 1
                      THEN <<FmtWords("0", <<pre2_word>>),
                             FmtWords("5", <<pre2_word, pre_word>>),
                             FmtWords("9", <<pre2_word, cur_word>>)>>
                      ELSE <<>>)
           ELSE <<>>)
     \o (IF last > 0
           THEN <<FmtWords("3", <<next_word>>),
                  FmtWords("7", <<cur_word, next_word>>),
                  FmtChars("e", chars, <<<<idx, n - 1>>, <<idx + 1, 0>>>>)>>
                \o (IF last > 1
                      THEN <<FmtWords("4", <<next2_word>>),
                             FmtWords("8", <<next_word, next2_word>>),
                             FmtWords("a", <<cur_word, next2_word>>)>>
                      ELSE <<>>)
           ELSE <<>>)
     \o (IF idx > 0 /\ last > 0
           THEN <<FmtWords("b", <<pre_word, cur_word, next_word>>)>>
           ELSE <<>>)

(* position of the first push that panics, 0 when none does *)
FirstPanic(pushes) ==
  LET bad == {k \in 1..Len(pushes) : ~pushes[k].ok}
  IN IF bad = {} THEN 0 ELSE CHOOSE k \in bad : \A j \in bad : k <= j

(* parse_words_features: the feature strings of every token, or the panic  *)
(* of the first out-of-range char access (tok: the token it indexed)       *)
ParseWordsFeatures(ws) ==
  LET chars == collect_vec([i \in 1..Len(ws) |-> Chars(ws[i])])
      pushes == collect_vec([i \in 1..Len(ws) |->
                               TokenFeature(ws, chars, i - 1)])
      failing == {i \in 1..Len(ws) : FirstPanic(pushes[i]) # 0}
      f == CHOOSE i \in failing : \A j \in failing : i <= j
  IN IF failing = {}
       THEN [status |-> "ok",
             features |-> [i \in 1..Len(ws) |->
                             [k \in 1..Len(pushes[i]) |-> pushes[i][k].key]]]
       ELSE [status |-> "panic",
             tok |-> pushes[f][FirstPanic(pushes[f])].bad]

(* the pushes of one pass of the loop of parse_words_features_with_buffer, *)
(* each handed to buf_feature! in this order                               *)
TokenFeatureBuf(ws, chars, idx) ==
  LET words_len == Len(ws)
      last == words_len - idx - 1
      cur_word == At(ws, idx)
      pre2_word == IF idx > 1 THEN At(ws, idx - 2) ELSE word_null
      pre_word == IF idx > 0 THEN At(ws, idx - 1) ELSE word_null
      next_word == IF last > 0 THEN At(ws, idx + 1) ELSE word_null
      next2_word == IF last > 1 THEN At(ws, idx + 2) ELSE word_null
      n == Len(At(chars, idx))
  IN <<FmtWords("2", <<At(ws, idx)>>),
       FmtChars("c", chars, <<<<idx, 0>>, <<idx, n - 1>>>>),
       FmtLen("f", n)>>
     \o Enumerate(prefix_id, Take(At(chars, idx), 3))
     \o Enumerate(suffix_id, Take(Rev(At(chars, idx)), 3))
     \o (IF idx > 0
           THEN <<FmtWords("1", <<pre_word>>),
                  FmtWords("6", <<pre_word, cur_word>>),
                  FmtChars("d", chars,
                           <<<<idx - 1, Len(At(chars, idx - 1)) - 1>>,
                             <<idx, 0>>>>)>>
                \o (IF idx > 1
                      THEN <<FmtWords("0", <<pre2_word>>),
                             FmtWords("5", <<pre2_word, pre_word>>),
                             FmtWords("9", <<pre2_word, cur_word>>)>>
                      ELSE <<>>)
           ELSE <<>>)
     \o (IF last > 0
           THEN <<FmtWords("3", <<next_word>>),
                  FmtWords("7", <<cur_word, next_word>>),
                  FmtChars("e", chars, <<<<idx, n - 1>>, <<idx + 1, 0>>>>)>>
                \o (IF last > 1
                      THEN <<FmtWords("4", <<next2_word>>),
                             FmtWords("8", <<next_word, next2_word>>),
                             FmtWords("a", <<cur_word, next2_word>>)>>
                      ELSE <<>>)
           ELSE <<>>)
     \o (IF idx > 0 /\ last > 0
           THEN <<FmtWords("b", <<pre_word, cur_word, next_word>>)>>
           ELSE <<>>)

(* buf_feature!(buffer, feature, fmt, args): the formatted text is written *)
(* at the end of the buffer and the buffer's new length is pushed          *)
BufFeature(st, push) ==
  [buffer |-> st.buffer \o push.key,
   feature |-> Append(st.feature, Len(st.buffer) + Len(push.key))]

(* the buf_feature! calls of one token, up to the first one that panics *)
RECURSIVE WriteToken(_, _, _)
WriteToken(pushes, k, st) ==
  IF k > Len(pushes) THEN [ok |-> TRUE, bad |-> -1, st |-> st]
  ELSE IF ~pushes[k].ok THEN [ok |-> FALSE, bad |-> pushes[k].bad, st |-> st]
  ELSE WriteToken(pushes, k + 1, BufFeature(st, pushes[k]))

(* the first loop of parse_words_features_with_buffer from token idx on:   *)
(* the buffer after it and the end offsets of every token's features       *)
RECURSIVE WriteTokens(_, _, _, _, _)
WriteTokens(ws, chars, idx, buf, features) ==
  IF idx >= Len(ws) THEN [ok |-> TRUE, bad |-> -1, buffer |-> buf,
                          features |-> features]
  ELSE LET r == WriteToken(TokenFeatureBuf(ws, chars, idx), 1,
                           [buffer |-> buf, feature |-> <<>>])
       IN IF ~r.ok
            THEN [ok |-> FALSE, bad |-> r.bad, buffer |-> r.st.buffer,
                  features |-> features]
            ELSE WriteTokens(ws, chars, idx + 1, r.st.buffer,
                             Append(features, r.st.feature))

(* mutant of SliceTokens: start is not carried from one token to the next *)
RECURSIVE SliceTokensRestart(_, _)
SliceTokensRestart(features, start) ==
  IF features = <<>> THEN <<>>
  ELSE LET feature_end == Head(features)
           feature == [k \in 1..Len(feature_end) |->
                         [start |-> IF k = 1 THEN start
                                    ELSE feature_end[k - 1],
                          end |-> feature_end[k]]]
       IN <<feature>> \o SliceTokensRestart(Tail(features), start)

(* the second loop: buffer[start..end] for every end offset, start carried *)
(* from one feature to the next and from one token to the next             *)
RECURSIVE SliceTokens(_, _)
SliceTokens(features, start) ==
  IF features = <<>> THEN <<>>
  ELSE LET feature_end == Head(features)
           feature == [k \in 1..Len(feature_end) |->
                         [start |-> IF k = 1 THEN start
                                    ELSE feature_end[k - 1],
                          end |-> feature_end[k]]]
           next == IF feature_end = <<>> THEN start
                   ELSE feature_end[Len(feature_end)]
       IN <<feature>> \o SliceTokens(Tail(features), next)

(* parse_words_features_with_buffer: the buffer after the call and the     *)
(* returned slices as byte ranges of it                                    *)
ParseWordsFeaturesWithBuffer(ws, buf) ==
  LET chars == collect_vec([i \in 1..Len(ws) |-> Chars(ws[i])])
      w == WriteTokens(ws, chars, 0, buf, <<>>)
  IN IF w.ok
       THEN [status |-> "ok", buffer |-> w.buffer,
             features |-> SliceTokens(w.features, 0)]
       ELSE [status |-> "panic", buffer |-> w.buffer, tok |-> w.bad]

(* the text a returned &str shows: the bytes of its range of the buffer *)
Text(buf, slice) == SubSeq(buf, slice.start + 1, slice.end)

-----------------------------------------------------------------------------
(* Label dictionary *)

(* mutant of New: the indices of labels_to start at 1 *)
NewFromOne(labels) ==
  [to_labels |-> labels,
   labels_to |-> [l \in {labels[i] : i \in 1..Len(labels)} |->
                    CHOOSE i \in 1..Len(labels) :
                      /\ labels[i] = l
                      /\ \A j \in 1..Len(labels) : labels[j] = l => j <= i]]

(* POSDefinition::new: labels_to collects (label, i); a later pair         *)
(* replaces an earlier one with the same label                             *)
New(labels) ==
  [to_labels |-> labels,
   labels_to |-> [l \in {labels[i] : i \in 1..Len(labels)} |->
                    (CHOOSE i \in 1..Len(labels) :
                       /\ labels[i] = l
                       /\ \A j \in 1..Len(labels) : labels[j] = l => j <= i)
                    - 1]]

(* mutant of LabelTo: an unknown label maps to index 0 *)
LabelToOrDefault(label) ==
  [status |-> "ok",
   value |-> IF label \in DOMAIN labels_to THEN labels_to[label] ELSE 0]

(* Definition::label_to: HashMap index, panics on a missing key *)
LabelTo(label) ==
  IF label \in DOMAIN labels_to
    THEN [status |-> "ok", value |-> labels_to[label]]
    ELSE [status |-> "panic"]

(* Definition::to_label: Vec index, panics out of range *)
ToLabel(index) ==
  IF InRange(to_labels, index)
    THEN [status |-> "ok", value |-> At(to_labels, index)]
    ELSE [status |-> "panic"]

-----------------------------------------------------------------------------
(* Inputs *)


(* "a", "他来", a ten-char word with multi-byte chars at both ends *)
WordSet ==
  {Str(<<97>>), Str(<<20182, 26469>>),
   Str(<<20182, 98, 99, 100, 101, 102, 103, 104, 97, 26469>>)}

Sentences == UNION {[1..n -> WordSet] : n \in 0..MaxWords}

(* shorter sentences that may hold the empty word *)
SentencesWithEmpty == UNION {[1..n -> WordSet \cup {<<>>}] : n \in 0..MaxShort}

LabelR == Lit(<<"r">>)
LabelV == Lit(<<"v">>)

(* the corpus line that tags the words of a sentence r, v, r, ... *)
RECURSIVE GoldLine(_, _)
GoldLine(ws, i) ==
  IF i > Len(ws) THEN <<>>
  ELSE (IF i > 1 THEN Lit(<<" ">>) ELSE <<>>)
       \o ws[i] \o Lit(<<"/">>) \o (IF i % 2 = 1 THEN LabelR ELSE LabelV)
       \o GoldLine(ws, i + 1)

-----------------------------------------------------------------------------
(* Corpus loader *)

(* char::is_whitespace *)
IsWhitespace(c) ==
  c \in (9..13) \cup {32, 133, 160, 5760, 8232, 8233, 8239, 8287, 12288}
        \cup (8192..8202)

(* str::split_whitespace over the chars of a line: the maximal runs of     *)
(* non-whitespace chars                                                    *)
RECURSIVE SplitRuns(_, _, _)
SplitRuns(cs, cur, acc) ==
  IF cs = <<>> THEN (IF cur = <<>> THEN acc ELSE Append(acc, cur))
  ELSE IF IsWhitespace(Head(cs))
    THEN SplitRuns(Tail(cs), <<>>,
                   IF cur = <<>> THEN acc ELSE Append(acc, cur))
    ELSE SplitRuns(Tail(cs), Append(cur, Head(cs)), acc)

SplitWhitespace(sentence) ==
  LET runs == SplitRuns(Chars(sentence), <<>>, <<>>)
  IN collect_vec([i \in 1..Len(runs) |-> Str(runs[i])])

(* mutant of RSplitN2: splits at the first '/' as splitn(2, '/') would *)
SplitN2(word_tag) ==
  LET at == {p \in 1..Len(word_tag) : word_tag[p] = Ascii["/"]}
      p == CHOOSE q \in at : \A r \in at : q <= r
  IN IF at = {} THEN <<word_tag>>
     ELSE <<SubSeq(word_tag, p + 1, Len(word_tag)), SubSeq(word_tag, 1, p - 1)>>

(* word_tag.rsplitn(2, '/'): the text after the last '/', then the text    *)
(* before it; the whole token alone when it holds no '/'                   *)
RSplitN2(word_tag) ==
  LET at == {p \in 1..Len(word_tag) : word_tag[p] = Ascii["/"]}
      p == CHOOSE q \in at : \A r \in at : r <= q
  IN IF at = {} THEN <<word_tag>>
     ELSE <<SubSeq(word_tag, p + 1, Len(word_tag)), SubSeq(word_tag, 1, p - 1)>>

(* the for loop over words_tags from token k on: collect_tuple().expect    *)
(* panics unless rsplitn gave two parts, label_to panics on an unknown tag *)
RECURSIVE SplitTags(_, _, _, _)
SplitTags(words_tags, k, ws, labels) ==
  IF k > Len(words_tags) THEN [status |-> "ok", words |-> ws, labels |-> labels]
  ELSE LET result == RSplitN2(words_tags[k])
       IN IF Len(result) # 2 THEN [status |-> "panic", why |-> "tag not found"]
          ELSE LET label == result[1]
                   word == result[2]
                   index == LabelTo(label)
               IN IF index.status # "ok"
                    THEN [status |-> "panic", why |-> "label_to"]
                    ELSE SplitTags(words_tags, k + 1, Append(ws, word),
                                   Append(labels, index.value))

(* the map closure of parse_gold_features: one line to one Sample *)
ParseSentence(sentence) ==
  LET words_tags == SplitWhitespace(sentence)
      split == SplitTags(words_tags, 1, <<>>, <<>>)
      features == ParseWordsFeatures(split.words)
  IN IF split.status # "ok" THEN split
     ELSE IF features.status # "ok"
       THEN [status |-> "panic", why |-> "index out of range"]
       ELSE [status |-> "ok", features |-> features.features,
             labels |-> split.labels]

(* lines.flatten().filter(|s| !s.is_empty()) *)
FilterLines(ls) == SelectSeq(ls, LAMBDA s : s # <<>>)

(* parse_gold_features without the parallel feature: the Samples of the    *)
(* kept lines in order, or the panic of the first line that panics         *)
ParseGoldFeatures(ls) ==
  LET ks == FilterLines(ls)
      rs == collect_vec([i \in 1..Len(ks) |-> ParseSentence(ks[i])])
  IN IF \E i \in 1..Len(ks) : rs[i].status # "ok"
       THEN [status |-> "panic"]
       ELSE [status |-> "ok",
             samples |-> [i \in 1..Len(ks) |->
                            [features |-> rs[i].features,
                             labels |-> rs[i].labels]]]

-----------------------------------------------------------------------------
(* Operations *)

(* define.labels() *)
Labels ==
  /\ ret' = [op |-> "labels", status |-> "ok", value |-> to_labels]
  /\ UNCHANGED <<dictVars, extractVars, corpusVars>>

(* define.label_num() *)
LabelNum ==
  /\ ret' = [op |-> "label_num", status |-> "ok", value |-> Len(to_labels)]
  /\ UNCHANGED <<dictVars, extractVars, corpusVars>>

(* define.label_to(label) *)
CallLabelTo(label) ==
  /\ ret' = [op |-> "label_to", arg |-> label, result |-> LabelTo(label)]
  /\ UNCHANGED <<dictVars, extractVars, corpusVars>>

(* define.to_label(index) *)
CallToLabel(index) ==
  /\ ret' = [op |-> "to_label", arg |-> index, result |-> ToLabel(index)]
  /\ UNCHANGED <<dictVars, extractVars, corpusVars>>

(* define.parse_words_features(&words) *)
Extract ==
  /\ no_buffer' = ParseWordsFeatures(words)
  /\ UNCHANGED <<dictVars, ret, words, buffer, with_buffer, calls, corpusVars>>

(* define.parse_words_features_with_buffer(&words, &mut buffer): the       *)
(* slices of an earlier call are dropped before the buffer is lent again;  *)
(* base is the buffer's length when the call starts                        *)
ExtractInto ==
  /\ calls < MaxCalls
  /\ LET r == ParseWordsFeaturesWithBuffer(words, buffer)
     IN /\ buffer' = r.buffer
        /\ with_buffer' =
             IF r.status = "ok"
               THEN [status |-> "ok", base |-> Len(buffer),
                     features |-> r.features]
               ELSE [status |-> "panic", base |-> Len(buffer), tok |-> r.tok]
  /\ calls' = calls + 1
  /\ UNCHANGED <<dictVars, ret, words, no_buffer, corpusVars>>

(* the caller empties its buffer; no slice of it is alive any more *)
ClearBuffer ==
  /\ buffer # <<>>
  /\ buffer' = <<>>
  /\ with_buffer' = None
  /\ UNCHANGED <<dictVars, ret, words, no_buffer, calls, corpusVars>>

(* define.parse_gold_features(reader), built without the parallel feature *)
LoadGold ==
  /\ pc = "idle"
  /\ kept' = FilterLines(lines)
  /\ samples' = ParseGoldFeatures(lines)
  /\ pc' = "done"
  /\ UNCHANGED <<dictVars, ret, extractVars, lines, slots, running, reordered,
                 nworkers>>

(* parse_gold_features with the parallel feature, up to par_iter: the      *)
(* non-empty lines and one result slot per line                            *)
BeginLoad ==
  /\ pc = "idle"
  /\ kept' = FilterLines(lines)
  /\ slots' = [i \in 1..Len(FilterLines(lines)) |-> None]
  /\ pc' = "par"
  /\ UNCHANGED <<dictVars, ret, extractVars, lines, running, reordered,
                 nworkers, samples>>

(* a free worker of the pool takes line i *)
WorkerTake(i) ==
  /\ pc = "par"
  /\ slots[i] = None
  /\ i \notin running
  /\ Cardinality(running) < nworkers
  /\ running' = running \cup {i}
  /\ UNCHANGED <<dictVars, ret, extractVars, lines, kept, pc, slots, reordered,
                 nworkers, samples>>

(* mutant of WorkerFinish: the Sample goes to the next free position, in   *)
(* completion order                                                        *)
WorkerFinishPush(i) ==
  /\ pc = "par"
  /\ i \in running
  /\ slots' = [slots EXCEPT
                ![Cardinality({j \in 1..Len(slots) : slots[j] # None}) + 1]
                  = ParseSentence(kept[i])]
  /\ running' = running \ {i}
  /\ reordered' = (reordered \/ \E j \in 1..(i - 1) : slots[j] = None)
  /\ UNCHANGED <<dictVars, ret, extractVars, lines, kept, pc, nworkers,
                 samples>>

(* the worker on line i ends the map closure: collect_into_vec puts the    *)
(* Sample at position i, a panic is kept for the caller; reordered records *)
(* that a line ended before a line above it                                *)
WorkerFinish(i) ==
  /\ pc = "par"
  /\ i \in running
  /\ slots' = [slots EXCEPT ![i] = ParseSentence(kept[i])]
  /\ running' = running \ {i}
  /\ reordered' = (reordered \/ \E j \in 1..(i - 1) : slots[j] = None)
  /\ UNCHANGED <<dictVars, ret, extractVars, lines, kept, pc, nworkers,
                 samples>>

(* collect_into_vec returns once no worker is busy and every line is done, *)
(* or resumes a worker's panic in the caller, the lines not yet taken      *)
(* being dropped                                                           *)
Collect ==
  /\ pc = "par"
  /\ running = {}
  /\ \/ \A i \in 1..Len(slots) : slots[i].status = "ok"
     \/ \E i \in 1..Len(slots) : slots[i].status = "panic"
  /\ samples' =
       IF \E i \in 1..Len(slots) : slots[i].status = "panic"
         THEN [status |-> "panic"]
         ELSE [status |-> "ok",
               samples |-> [i \in 1..Len(slots) |->
                              [features |-> slots[i].features,
                               labels |-> slots[i].labels]]]
  /\ pc' = "done"
  /\ UNCHANGED <<dictVars, ret, extractVars, lines, kept, slots, running,
                 reordered, nworkers>>

-----------------------------------------------------------------------------
(* Both extractions of every sentence of up to MaxWords non-empty words,   *)
(* the buffer reused or cleared between calls                              *)

Init ==
  /\ to_labels = New(<<LabelR, LabelV>>).to_labels
  /\ labels_to = New(<<LabelR, LabelV>>).labels_to
  /\ ret = [op |-> "none"]
  /\ words \in Sentences
  /\ buffer = <<>>
  /\ no_buffer = None
  /\ with_buffer = None
  /\ calls = 0
  /\ lines = <<>>
  /\ kept = <<>>
  /\ pc = "idle"
  /\ slots = <<>>
  /\ running = {}
  /\ reordered = FALSE
  /\ nworkers = 1
  /\ samples = None

Next == Extract \/ ExtractInto \/ ClearBuffer

Spec == Init /\ [][Next]_vars

-----------------------------------------------------------------------------
(* Both extractions of every sentence of up to MaxShort words, the empty   *)
(* word among them, and the load of the one-line corpus that tags it       *)

InitEmpty ==
  /\ to_labels = New(<<LabelR, LabelV>>).to_labels
  /\ labels_to = New(<<LabelR, LabelV>>).labels_to
  /\ ret = [op |-> "none"]
  /\ words \in SentencesWithEmpty
  /\ buffer = <<>>
  /\ no_buffer = None
  /\ with_buffer = None
  /\ calls = 0
  /\ lines = <<GoldLine(words, 1)>>
  /\ kept = <<>>
  /\ pc = "idle"
  /\ slots = <<>>
  /\ running = {}
  /\ reordered = FALSE
  /\ nworkers = 1
  /\ samples = None

NextEmpty == Extract \/ ExtractInto \/ LoadGold

SpecEmpty == InitEmpty /\ [][NextEmpty]_vars

-----------------------------------------------------------------------------
(* Properties of feature extraction *)

NonEmptyTokens == \A i \in 1..Len(words) : words[i] # <<>>

EmptyTokens == {i \in 1..Len(words) : words[i] = <<>>}

FirstEmptyToken == (CHOOSE i \in EmptyTokens : \A j \in EmptyTokens : i <= j) - 1

(* C1: on a sequence of non-empty tokens, parse_words_features and         *)
(* parse_words_features_with_buffer called on an empty buffer return the   *)
(* same number of tokens, the same number of keys per token and the same   *)
(* key strings in the same order.                                          *)
C1_BufferEquivalence ==
  (/\ no_buffer.status # "none"
   /\ with_buffer.status # "none"
   /\ with_buffer.base = 0
   /\ NonEmptyTokens)
  => /\ no_buffer.status = "ok"
     /\ with_buffer.status = "ok"
     /\ Len(with_buffer.features) = Len(no_buffer.features)
     /\ Len(no_buffer.features) = Len(words)
     /\ \A i \in 1..Len(no_buffer.features) :
          /\ Len(with_buffer.features[i]) = Len(no_buffer.features[i])
          /\ \A k \in 1..Len(no_buffer.features[i]) :
               Text(buffer, with_buffer.features[i][k])
                 = no_buffer.features[i][k]

C1_Witness ==
  /\ no_buffer.status = "ok"
  /\ with_buffer.status = "ok"
  /\ with_buffer.base = 0
  /\ Len(words) = MaxWords
  /\ \E i \in 1..Len(words) : Len(words[i]) > Len(Chars(words[i]))

(* the keys the feature table lists for token i (0-based) of sentence W *)
C2_Expected(W, i) ==
  LET n == Len(W)
      last == n - i - 1
      w(j) == IF 0 <= i + j /\ i + j < n THEN W[i + j + 1] ELSE <<>>
      ch(j) == Chars(w(j))
      first(j) == EncodeUtf8(ch(j)[1])
      final(j) == EncodeUtf8(ch(j)[Len(ch(j))])
      m == Min(3, Len(ch(0)))
      M(c) == <<Ascii[c]>>
  IN <<M("2") \o w(0), M("c") \o first(0) \o final(0),
       M("f") \o Decimal(Len(ch(0)))>>
     \o SubSeq(<<M("c") \o EncodeUtf8(ch(0)[1]),
                 M("d") \o EncodeUtf8(ch(0)[Min(2, Len(ch(0)))]),
                 M("e") \o EncodeUtf8(ch(0)[Min(3, Len(ch(0)))])>>, 1, m)
     \o SubSeq(<<M("f") \o EncodeUtf8(ch(0)[Len(ch(0))]),
                 M("g") \o EncodeUtf8(ch(0)[Len(ch(0)) - Min(1, Len(ch(0)) - 1)]),
                 M("h") \o EncodeUtf8(ch(0)[Len(ch(0)) - Min(2, Len(ch(0)) - 1)])>>,
               1, m)
     \o (IF i > 0 THEN <<M("1") \o w(-1), M("6") \o w(-1) \o w(0),
                         M("d") \o final(-1) \o first(0)>> ELSE <<>>)
     \o (IF i > 1 THEN <<M("0") \o w(-2), M("5") \o w(-2) \o w(-1),
                         M("9") \o w(-2) \o w(0)>> ELSE <<>>)
     \o (IF last > 0 THEN <<M("3") \o w(1), M("7") \o w(0) \o w(1),
                            M("e") \o final(0) \o first(1)>> ELSE <<>>)
     \o (IF last > 1 THEN <<M("4") \o w(2), M("8") \o w(1) \o w(2),
                            M("a") \o w(0) \o w(2)>> ELSE <<>>)
     \o (IF i > 0 /\ last > 0 THEN <<M("b") \o w(-1) \o w(0) \o w(1)>>
         ELSE <<>>)

C3_ReusedBuffer ==
  with_buffer.status = "ok"
  => LET direct == ParseWordsFeatures(words)
     IN /\ direct.status = "ok"
        /\ Len(with_buffer.features) = Len(direct.features)
        /\ \A i \in 1..Len(direct.features) :
             /\ Len(with_buffer.features[i]) = Len(direct.features[i])
             /\ \A k \in 1..Len(direct.features[i]) :
                  /\ with_buffer.features[i][k].start >= with_buffer.base
                  /\ Text(buffer, with_buffer.features[i][k])
                       = direct.features[i][k]

(* C7 as stated: every token has between 9 and 22 keys, 9 in a one-token   *)
(* sentence and 22 with two tokens before it and two after it.             *)
C7_CountsAsStated ==
  no_buffer.status = "ok"
  => \A i \in 1..Len(words) :
       LET count == Len(no_buffer.features[i])
       IN /\ 9 <= count /\ count <= 22
          /\ Len(words) = 1 => count = 9
          /\ (i > 2 /\ Len(words) - i >= 2) => count = 22

(* C7 amended: with m = min(3, chars of the token), every token has        *)
(* between 3 + 2m and 16 + 2m keys (so between 5 and 22), exactly 3 + 2m   *)
(* in a one-token sentence and exactly 16 + 2m with two tokens before it   *)
(* and two after it.                                                       *)
C7_Counts ==
  (no_buffer.status # "none" /\ NonEmptyTokens)
  => /\ no_buffer.status = "ok"
     /\ \A i \in 1..Len(words) :
          LET count == Len(no_buffer.features[i])
              m == Min(3, Len(Chars(words[i])))
          IN /\ 3 + 2 * m <= count /\ count <= 16 + 2 * m
             /\ 5 <= count /\ count <= 22
             /\ Len(words) = 1 => count = 3 + 2 * m
             /\ (i > 2 /\ Len(words) - i >= 2) => count = 16 + 2 * m

C7_Witness ==
  /\ no_buffer.status = "ok"
  /\ Len(words) >= 5
  /\ Len(no_buffer.features[3]) = 22
  /\ Len(no_buffer.features[1]) = 11

(* C10: on a sequence with a zero-char token both extractions panic on an  *)
(* out-of-range char access into the first such token and return nothing,  *)
(* and a corpus line with a token whose word part before the rightmost '/' *)
(* is empty aborts parse_gold_features.                                    *)
C10_EmptyToken ==
  /\ (no_buffer.status # "none" /\ EmptyTokens # {})
       => no_buffer = [status |-> "panic", tok |-> FirstEmptyToken]
  /\ (with_buffer.status # "none" /\ EmptyTokens # {})
       => /\ with_buffer.status = "panic"
          /\ with_buffer.tok = FirstEmptyToken
  /\ (/\ pc = "done"
      /\ \E l \in 1..Len(lines) :
           \E t \in 1..Len(SplitWhitespace(lines[l])) :
             LET token == SplitWhitespace(lines[l])[t]
             IN /\ token[1] = Ascii["/"]
                /\ \A q \in 2..Len(token) : token[q] # Ascii["/"])
       => samples = [status |-> "panic"]

C10_Witness ==
  /\ Len(words) >= 3
  /\ words[1] # <<>>
  /\ words[2] = <<>>
  /\ no_buffer.status = "panic"
  /\ with_buffer.status = "panic"
  /\ with_buffer.tok = 1
  /\ Len(buffer) > 0
  /\ pc = "done"
  /\ samples.status = "panic"

-----------------------------------------------------------------------------
(* The load of every corpus of up to MaxLines lines on a pool of up to     *)
(* MaxWorkers workers, and without the parallel feature                    *)

(* "", " 　", "他/r 来/v", " a/b/v  a/r ", "a/r b", "a/x", "a/r /v"     *)
LineSet ==
  {<<>>,
   Str(<<32, 12288>>),
   Str(<<20182, 47, 114, 32, 26469, 47, 118>>),
   Lit(<<" ", "a", "/", "b", "/", "v", " ", " ", "a", "/", "r", " ">>),
   Lit(<<"a", "/", "r", " ", "b">>),
   Lit(<<"a", "/", "x">>),
   Lit(<<"a", "/", "r", " ", "/", "v">>)}

Corpora == UNION {[1..n -> LineSet] : n \in 0..MaxLines}

InitCorpus ==
  /\ to_labels = New(<<LabelR, LabelV>>).to_labels
  /\ labels_to = New(<<LabelR, LabelV>>).labels_to
  /\ ret = [op |-> "none"]
  /\ words = <<>>
  /\ buffer = <<>>
  /\ no_buffer = None
  /\ with_buffer = None
  /\ calls = 0
  /\ lines \in Corpora
  /\ kept = <<>>
  /\ pc = "idle"
  /\ slots = <<>>
  /\ running = {}
  /\ reordered = FALSE
  /\ nworkers \in 1..MaxWorkers
  /\ samples = None

NextCorpus ==
  \/ LoadGold
  \/ BeginLoad
  \/ \E i \in 1..Len(slots) : WorkerTake(i)
  \/ \E i \in running : WorkerFinish(i)
  \/ Collect

SpecCorpus == InitCorpus /\ [][NextCorpus]_vars

-----------------------------------------------------------------------------
(* Properties of the corpus loader *)

NonEmptyLines == SelectSeq(lines, LAMBDA s : Len(s) > 0)

Slashes(token) == {p \in 1..Len(token) : token[p] = Ascii["/"]}

LastSlash(token) == CHOOSE p \in Slashes(token) : \A q \in Slashes(token) : q <= p

TagOf(token) == SubSeq(token, LastSlash(token) + 1, Len(token))

WordOf(token) == SubSeq(token, 1, LastSlash(token) - 1)

Vocabulary == {to_labels[i] : i \in 1..Len(to_labels)}

TokensOf(line) == SplitWhitespace(line)

WellFormed(token) ==
  /\ Slashes(token) # {}
  /\ TagOf(token) \in Vocabulary
  /\ WordOf(token) # <<>>

Malformed(token) == Slashes(token) = {} \/ TagOf(token) \notin Vocabulary

(* C4: a corpus of well-formed tokens loads, and the Sample of every       *)
(* non-empty line has, per token, the index of the text after the          *)
(* rightmost '/' as label and the features of parse_words_features on the  *)
(* texts before it, both as long as the line has tokens.                   *)
C4_GoldSample ==
  (/\ pc = "done"
   /\ \A l \in 1..Len(NonEmptyLines) :
        \A t \in 1..Len(TokensOf(NonEmptyLines[l])) :
          WellFormed(TokensOf(NonEmptyLines[l])[t]))
  => /\ samples.status = "ok"
     /\ Len(samples.samples) = Len(NonEmptyLines)
     /\ \A l \in 1..Len(NonEmptyLines) :
          LET tokens == TokensOf(NonEmptyLines[l])
              ws == collect_vec([t \in 1..Len(tokens) |-> WordOf(tokens[t])])
              sample == samples.samples[l]
          IN /\ Len(sample.labels) = Len(tokens)
             /\ Len(sample.features) = Len(tokens)
             /\ \A t \in 1..Len(tokens) :
                  /\ WordOf(tokens[t]) \o <<Ascii["/"]>> \o TagOf(tokens[t])
                       = tokens[t]
                  /\ sample.labels[t] = labels_to[TagOf(tokens[t])]
                  /\ At(to_labels, sample.labels[t]) = TagOf(tokens[t])
             /\ sample.features = ParseWordsFeatures(ws).features

C4_Witness ==
  /\ pc = "done"
  /\ samples.status = "ok"
  /\ \E l \in 1..Len(samples.samples) :
       /\ samples.samples[l].labels = <<1, 0>>
       /\ samples.samples[l].features[1][1] = Lit(<<"2", "a", "/", "b">>)
  /\ \E l \in 1..Len(samples.samples) : samples.samples[l].labels = <<0, 1>>

C8_BlankLinesSkipped ==
  (pc = "done" /\ samples.status = "ok")
  => /\ Len(samples.samples)
          = Cardinality({l \in 1..Len(lines) : Len(TokensOf(lines[l])) > 0})
     /\ \A l \in 1..Len(samples.samples) :
          Len(samples.samples[l].labels) > 0

(* C9: a token without '/' or with a tag outside the vocabulary, on any    *)
(* line, makes the load end in a panic with no Sample returned, whichever  *)
(* worker meets it and whatever ran before.                                *)
C9_LoadAborts ==
  (/\ pc = "done"
   /\ \E l \in 1..Len(lines) :
        \E t \in 1..Len(TokensOf(lines[l])) :
          Malformed(TokensOf(lines[l])[t]))
  => samples = [status |-> "panic"]

C9_Witness ==
  /\ pc = "done"
  /\ samples.status = "panic"
  /\ nworkers = 2
  /\ \E i \in 1..Len(slots) : slots[i].status = "ok"
  /\ \E i \in 1..Len(slots) :
       slots[i] = [status |-> "panic", why |-> "label_to"]
  /\ \E i \in 1..Len(slots) : slots[i].status = "none"

-----------------------------------------------------------------------------
(* The dictionary of every label list of up to MaxLabels labels, under its *)
(* lookups, both extractions of one sentence and the load of one line      *)

LabelY == Lit(<<"y">>)
LabelX == Lit(<<"x">>)

LabelLists == UNION {[1..n -> {LabelR, LabelV, LabelY}] : n \in 0..MaxLabels}

InitDict ==
  /\ \E labels \in LabelLists :
       /\ to_labels = New(labels).to_labels
       /\ labels_to = New(labels).labels_to
  /\ ret = [op |-> "none"]
  /\ words = <<Str(<<97>>), Str(<<20182, 26469>>)>>
  /\ buffer = <<>>
  /\ no_buffer = None
  /\ with_buffer = None
  /\ calls = 0
  /\ lines = <<Str(<<20182, 47, 114, 32, 26469, 47, 118>>)>>
  /\ kept = <<>>
  /\ pc = "idle"
  /\ slots = <<>>
  /\ running = {}
  /\ reordered = FALSE
  /\ nworkers = 1
  /\ samples = None

NextDict ==
  \/ Labels
  \/ LabelNum
  \/ \E label \in {LabelR, LabelV, LabelY, LabelX} : CallLabelTo(label)
  \/ \E index \in 0..MaxLabels : CallToLabel(index)
  \/ Extract
  \/ ExtractInto
  \/ LoadGold

SpecDict == InitDict /\ [][NextDict]_vars

Distinct(labels) ==
  \A i, j \in 1..Len(labels) : labels[i] = labels[j] => i = j

C6_Inverse ==
  Distinct(to_labels)
  => /\ DOMAIN labels_to = {to_labels[i] : i \in 1..Len(to_labels)}
     /\ {labels_to[l] : l \in DOMAIN labels_to} = 0..(Len(to_labels) - 1)
     /\ \A i \in 1..Len(to_labels) : labels_to[to_labels[i]] = i - 1
     /\ \A l \in DOMAIN labels_to :
          /\ LabelTo(l).status = "ok"
          /\ ToLabel(LabelTo(l).value) = [status |-> "ok", value |-> l]
     /\ \A i \in 0..(Len(to_labels) - 1) :
          /\ ToLabel(i).status = "ok"
          /\ LabelTo(ToLabel(i).value) = [status |-> "ok", value |-> i]

(* C6: in a dictionary built from distinct labels the indices are          *)
(* 0..label_num()-1 in source order, to_label(label_to(l)) = l for every   *)
(* label, label_to(to_label(i)) = i for every index below label_num(), and *)
(* no operation changes to_labels or labels_to.                            *)
C6_LabelBijection ==
  /\ []C6_Inverse
  /\ [][to_labels' = to_labels /\ labels_to' = labels_to]_vars

C6_Witness ==
  /\ Len(to_labels) = 3
  /\ Distinct(to_labels)
  /\ to_labels[1] = LabelV
  /\ ret.op = "to_label"
  /\ ret.arg = 2
  /\ ret.result.status = "ok"
  /\ no_buffer.status = "ok"
  /\ with_buffer.status = "ok"
  /\ samples.status = "ok"

====
